---- MODULE Spec2Model ----
(***************************************************************************)
(* Group-assignment engine of thermo/joback.py.                            *)
(*                                                                         *)
(*   smarts_fragment_priority  priority mode: one greedy pass (run_match)  *)
(*                             and a bounded search over suppressed        *)
(*                             (group, tuple) occurrences                  *)
(*   run_match                 the greedy pass itself                      *)
(*   smarts_fragment           strict-cover mode with the dedup loop       *)
(*                                                                         *)
(* The pattern oracle (rdkit GetSubstructMatches) is an input: all_matches *)
(* is what the collector loop stored for the molecule.  A match tuple is a *)
(* sequence of distinct atom indices; one compiled pattern yields tuples   *)
(* of one length that differ as atom sets (rdkit uniquifies matches).      *)
(***************************************************************************)
EXTENDS Integers, Sequences, FiniteSets, TLC

\* ------------------------------------------------------------------ bounds
\* largest molecule (heavy atoms) drawn as input
NAtoms == 3
\* most tuples the oracle returns for one group
MaxHits == 2

\* ------------------------------------------------------- program constants
remove_up_to == 5
MaxIterations == 100

StatusOK == "OK"
StatusNotAll == "Did not match all atoms present"
StatusRepeated == "Matched some atoms repeatedly: %s"
StatusOnly == "Matched %d of %d atoms only"
StatusFailed == "Failed to construct mol"

\* a status string: the format text and the values formatted into it
Status(text, args) == [text |-> text, args |-> args]

VARIABLES
    atom_count,         \* number of heavy atoms of rdkitmol; atoms are 0..atom_count-1
    atomHs,             \* GetTotalNumHs of each atom
    catalog,            \* sequence of descriptors, in catalog order
    all_matches,        \* group id -> list of match tuples (keys: groups with hits)
    pc,                 \* position in the function being run
    success, status,
    ignore_matches,     \* priority mode: the suppressed occurrences of the last pass
    matched_atoms, final_group_counts, final_assignments,
    remove, comb,       \* search position: size, and indices of the next combination
    trials,             \* number of run_match reruns made by the search
    counts,             \* strict-cover mode: the returned counts
    dups, iteration,    \* strict-cover mode: dedup loop state
    deduplicate,        \* strict-cover mode: the keyword argument
    first_ignore, first_matched,  \* run_match compared under two suppressed sets
    rdkitmol, smi,      \* the two molecule arguments: what is bound to each
    result,             \* priority mode: the tuple handed back by `return`
    args,               \* Joback: the arguments of the constructor
    self,               \* Joback: the attributes set on the object so far
    estimates,          \* Joback: what estimate() returned
    compiled            \* the group ids whose patterns Chem.MolFromSmarts compiled, in order

vars == <<atom_count, atomHs, catalog, all_matches, pc, success, status,
          ignore_matches, matched_atoms, final_group_counts, final_assignments,
          remove, comb, trials, counts, dups, iteration, deduplicate,
          first_ignore, first_matched, rdkitmol, smi, result,
          args, self, estimates, compiled>>

\* ------------------------------------------------------------ small helpers
Range(s) == {s[i] : i \in DOMAIN s}

RECURSIVE SumSeq(_)
SumSeq(s) == IF s = <<>> THEN 0 ELSE Head(s) + SumSeq(Tail(s))

RECURSIVE Ascending(_)
Ascending(S) ==
    IF S = {} THEN <<>>
    ELSE LET m == CHOOSE x \in S : \A y \in S : x <= y
         IN <<m>> \o Ascending(S \ {m})

RECURSIVE Flatten(_)
Flatten(ss) == IF ss = <<>> THEN <<>> ELSE Head(ss) \o Flatten(Tail(ss))

\* all_atom_idxs = set(i.GetIdx() for i in rdkitmol.GetAtoms())
AtomsOf(n) == 0 .. (n - 1)
all_atom_idxs == AtomsOf(atom_count)

\* H_count = rdkitmol_Hs.GetNumAtoms() - rdkitmol.GetNumAtoms()
H_count == SumSeq([i \in 1 .. atom_count |-> atomHs[i - 1]])

\* the groups of the catalog in catalog order, and those that got hits
\* (dict insertion order of all_matches)
CatalogGroups == [i \in DOMAIN catalog |-> catalog[i].group_id]
HasHits(g) == g \in DOMAIN all_matches
MatchKeys == SelectSeq(CatalogGroups, HasHits)

\* group_to_obj = {o.group_id: o for o in catalog}
group_to_obj(g) ==
    LET last == CHOOSE i \in DOMAIN catalog :
                    /\ catalog[i].group_id = g
                    /\ \A j \in DOMAIN catalog : catalog[j].group_id = g => j <= i
    IN catalog[last]

\* --------------------------------------------------- catalog_by_priority
\* variant: equal priorities are ordered by rising group_id
PairGreaterRisingId(p, q) == p[1] > q[1] \/ (p[1] = q[1] /\ p[2] < q[2])

\* tuple comparison of (priority, group_id) pairs as sorted() makes it
PairGreater(p, q) == p[1] > q[1] \/ (p[1] = q[1] /\ p[2] > q[2])

RECURSIVE SortedReverse(_)
SortedReverse(S) ==
    IF S = {} THEN <<>>
    ELSE LET m == CHOOSE x \in S : \A y \in S : x = y \/ PairGreater(x, y)
         IN <<m>> \o SortedReverse(S \ {m})

\* [group_to_obj[g] for _, g in sorted(zip(priorities, groups), reverse=True)]
catalog_by_priority ==
    LET pairs == {<<catalog[i].priority, catalog[i].group_id>> : i \in DOMAIN catalog}
        order == SortedReverse(pairs)
    IN [i \in DOMAIN order |-> group_to_obj(order[i][2])]

\* ----------------------------------------------------------------- run_match
\* variant: the overlap test looks at the first atom of the tuple only
AlreadyMatchedFirstAtom(match, matched) == match[1] \in matched

\* variant: the overlap test asks for the whole tuple to be matched already
AlreadyMatchedWhole(match, matched) == Range(match) \subseteq matched

\* if match_set.intersection(matched_atoms): continue
AlreadyMatched(match, matched) == Range(match) \cap matched # {}

\* variant: the guard never skips a tuple
WrongHydrogensNever(obj, match, atoms, H) == FALSE

\* if match_set == all_atom_idxs and H_count and obj.atoms.get('H', 0) != H_count
WrongHydrogens(obj, match, atoms, H) ==
    /\ Range(match) = atoms
    /\ H # 0
    /\ obj.atoms_H # H

\* variant: the suppression test compares the tuple and not the group
IgnoredAnyGroup(obj, match, ignore) == \E x \in ignore : x[2] = match

\* if (obj.group_id, match) in ignore_matches: continue
Ignored(obj, match, ignore) == <<obj.group_id, match>> \in ignore

\* variant: an accepted match sets the count of its group to 1
VisitMatchCountOnce(obj, match, acc, ignore, atoms, H) ==
    IF AlreadyMatched(match, acc.matched_atoms) THEN acc
    ELSE IF WrongHydrogens(obj, match, atoms, H) THEN acc
    ELSE IF Ignored(obj, match, ignore) THEN acc
    ELSE LET g == obj.group_id
             a == IF g \in DOMAIN acc.final_assignments
                  THEN acc.final_assignments[g] ELSE <<>>
         IN [matched_atoms |-> acc.matched_atoms \cup Range(match),
             final_group_counts |-> (g :> 1) @@ acc.final_group_counts,
             final_assignments |-> (g :> Append(a, match)) @@ acc.final_assignments]

\* the body of the inner loop for one match: the three `continue`s, else accept
VisitMatch(obj, match, acc, ignore, atoms, H) ==
    IF AlreadyMatched(match, acc.matched_atoms) THEN acc
    ELSE IF WrongHydrogens(obj, match, atoms, H) THEN acc
    ELSE IF Ignored(obj, match, ignore) THEN acc
    ELSE LET g == obj.group_id
             c == IF g \in DOMAIN acc.final_group_counts
                  THEN acc.final_group_counts[g] ELSE 0
             a == IF g \in DOMAIN acc.final_assignments
                  THEN acc.final_assignments[g] ELSE <<>>
         IN [matched_atoms |-> acc.matched_atoms \cup Range(match),
             final_group_counts |-> (g :> c + 1) @@ acc.final_group_counts,
             final_assignments |-> (g :> Append(a, match)) @@ acc.final_assignments]

\* for match in all_matches[obj.group_id]
RECURSIVE VisitMatches(_, _, _, _, _, _)
VisitMatches(obj, hits, acc, ignore, atoms, H) ==
    IF hits = <<>> THEN acc
    ELSE VisitMatches(obj, Tail(hits),
                      VisitMatch(obj, Head(hits), acc, ignore, atoms, H),
                      ignore, atoms, H)

\* for obj in catalog_by_priority: if obj.group_id in all_matches
RECURSIVE VisitGroups(_, _, _, _, _, _)
VisitGroups(objs, am, acc, ignore, atoms, H) ==
    IF objs = <<>> THEN acc
    ELSE LET obj == Head(objs)
             nxt == IF obj.group_id \in DOMAIN am
                    THEN VisitMatches(obj, am[obj.group_id], acc, ignore, atoms, H)
                    ELSE acc
         IN VisitGroups(Tail(objs), am, nxt, ignore, atoms, H)

EmptyFn == [x \in {} |-> 0]

run_match(cbp, am, ignore, atoms, H) ==
    VisitGroups(cbp, am,
                [matched_atoms |-> {},
                 final_group_counts |-> EmptyFn,
                 final_assignments |-> EmptyFn],
                ignore, atoms, H)

\* ------------------------------------------- verification of one pass
\* heavy_atom_matched = atom_count == len(matched_atoms)
heavy_atom_matched(r) == atom_count = Cardinality(r.matched_atoms)

\* variant: the hydrogen policy of the group is not read
TupleHydrogensFixed(found_group, found_atoms) == group_to_obj(found_group).atoms_H

\* hydrogens of one found tuple of found_group
TupleHydrogens(found_group, found_atoms) ==
    IF group_to_obj(found_group).hydrogen_from_smarts
    THEN SumSeq([i \in DOMAIN found_atoms |-> atomHs[found_atoms[i]]])
    ELSE group_to_obj(found_group).atoms_H

hydrogens_found(assignments) ==
    LET groupsSeq == Ascending(DOMAIN assignments)
        perGroup(g) == SumSeq([j \in DOMAIN assignments[g] |->
                                  TupleHydrogens(g, assignments[g][j])])
    IN SumSeq([k \in DOMAIN groupsSeq |-> perGroup(groupsSeq[k])])

hydrogens_matched(r) == hydrogens_found(r.final_assignments) = H_count

PassSucceeds(r) == heavy_atom_matched(r) /\ hydrogens_matched(r)

\* variant: the set is taken to be the whole molecule
AllHeaviesAssumed == all_atom_idxs

\* all_heavies_matched_by_a_pattern
all_heavies_matched_by_a_pattern ==
    UNION {UNION {Range(all_matches[g][i]) : i \in DOMAIN all_matches[g]} :
              g \in DOMAIN all_matches}

\* --------------------------------------------------- suppression search
\* things_to_ignore: every (k, v) of all_matches, keys in insertion order
things_to_ignore ==
    Flatten([k \in DOMAIN MatchKeys |->
                [i \in DOMAIN all_matches[MatchKeys[k]] |->
                    <<MatchKeys[k], all_matches[MatchKeys[k]][i]>>]])

\* itertools.combinations(things, r) as increasing index tuples in
\* lexicographic order: the first one, and the successor of c
HasComb(r, m) == r <= m
FirstComb(r) == [i \in 1 .. r |-> i]
CanAdvance(c, m) == \E i \in DOMAIN c : c[i] < m - (Len(c) - i)
NextComb(c, m) ==
    LET i == CHOOSE k \in DOMAIN c :
                 /\ c[k] < m - (Len(c) - k)
                 /\ \A j \in DOMAIN c : j > k => ~(c[j] < m - (Len(c) - j))
    IN [j \in DOMAIN c |-> IF j < i THEN c[j] ELSE c[i] + 1 + (j - i)]

\* ignore_matches = set(ignore_matches)
CombSet(c) == {things_to_ignore[c[i]] : i \in DOMAIN c}

\* the position of the two nested for loops after the combination c of size r
\* failed: the next combination of that size, else the first of the next
\* size that has one, else past the last size
NoComb == <<>>
RECURSIVE FirstFrom(_, _)
FirstFrom(r, m) ==
    IF r > remove_up_to THEN [remove |-> remove_up_to + 1, comb |-> NoComb]
    ELSE IF HasComb(r, m) THEN [remove |-> r, comb |-> FirstComb(r)]
    ELSE FirstFrom(r + 1, m)

\* variant: a failed combination ends the inner loop
AdvanceNextSize(r, c, m) == FirstFrom(r + 1, m)

Advance(r, c, m) ==
    IF CanAdvance(c, m) THEN [remove |-> r, comb |-> NextComb(c, m)]
    ELSE FirstFrom(r + 1, m)

\* ------------------------------------------------------------------ inputs
\* the match tuples of a pattern of k atoms in a molecule of n atoms
TuplesOfSize(n, k) ==
    {Ascending(S) : S \in {T \in SUBSET AtomsOf(n) : Cardinality(T) = k}}

\* lists of at most len different elements of T
RECURSIVE DistinctSeqs(_, _)
DistinctSeqs(T, len) ==
    IF len = 0 THEN {<<>>}
    ELSE {<<>>} \cup UNION {{<<t>> \o s : s \in DistinctSeqs(T \ {t}, len - 1)} : t \in T}

\* what GetSubstructMatches can return for one pattern: tuples of the pattern's
\* length, no two over the same atoms, in any order
HitLists(n) == UNION {DistinctSeqs(TuplesOfSize(n, k), MaxHits) : k \in 1 .. n}

GroupIds == {1, 2}
Priorities == {1, 2}
GroupHs == {0, 1}
AtomHValues == {0, 1}

\* attached hydrogens per atom; the atoms are numbered by falling hydrogen count
\* (run_match and the verification read tuples as atom sets)
HydrogenMaps(n) ==
    {h \in [AtomsOf(n) -> AtomHValues] : \A i \in AtomsOf(n) : i + 1 < n => h[i] >= h[i + 1]}

\* the collector loop: a group is recorded only if it has hits
Collect(hits) == [g \in {k \in DOMAIN hits : hits[k] # <<>>} |-> hits[g]]

Descriptor(g, p, hfs, h) ==
    [group_id |-> g, priority |-> p, hydrogen_from_smarts |-> hfs, atoms_H |-> h]

Descriptors(g) ==
    {Descriptor(g, p, hfs, h) : p \in Priorities, hfs \in BOOLEAN, h \in GroupHs}

\* catalogs of priority mode: two groups, the lowest priority being 1 (sorted()
\* reads only the order of the priorities).  The identifiers are read by
\* sorted() only when the priorities tie, so only the catalogs with a tie are
\* also listed with the greater identifier first.
PriorityCatalogs ==
    {c \in {<<d1, d2>> : d1 \in Descriptors(1), d2 \in Descriptors(2)} :
        c[1].priority = 1 \/ c[2].priority = 1}
    \cup {c \in {<<d2, d1>> : d1 \in Descriptors(1), d2 \in Descriptors(2)} :
             c[1].priority = 1 /\ c[2].priority = 1}

InitMolecule ==
    /\ atom_count \in 1 .. NAtoms
    /\ atomHs \in HydrogenMaps(atom_count)
    /\ \E hits \in [GroupIds -> HitLists(atom_count)] : all_matches = Collect(hits)

\* two single-atom patterns that each hit every atom of the largest molecule:
\* more occurrences than the search can suppress at once
SingleAtomHits(n) == [i \in 1 .. n |-> <<i - 1>>]

InitSingleAtomPatterns ==
    /\ atom_count = NAtoms
    /\ atomHs \in HydrogenMaps(NAtoms)
    /\ all_matches = [g \in GroupIds |-> SingleAtomHits(NAtoms)]

InitPriorityVars ==
    /\ ignore_matches = {}
    /\ matched_atoms = {}
    /\ final_group_counts = EmptyFn
    /\ final_assignments = EmptyFn
    /\ remove = 0
    /\ comb = NoComb
    /\ trials = 0

InitStrictVars ==
    /\ counts = EmptyFn
    /\ dups = <<>>
    /\ iteration = 0
    /\ deduplicate = TRUE

InitCompareVars ==
    /\ first_ignore = {}
    /\ first_matched = {}

\* a molecule was passed as rdkitmol and no SMILES string: the call reaches
\* the collector loop (a SMILES string that parses binds the same rdkitmol)
InitCallVars ==
    /\ rdkitmol = "Mol"
    /\ smi = "None"
    /\ result = <<>>

InitJobackVars ==
    /\ args = <<>>
    /\ self = <<>>
    /\ estimates = <<>>

strictVars == <<counts, dups, iteration, deduplicate>>
compareVars == <<first_ignore, first_matched>>
inputVars == <<atom_count, atomHs, catalog, compiled>>
callVars == <<rdkitmol, smi>>
priorityVars == <<ignore_matches, matched_atoms, final_group_counts,
                  final_assignments, remove, comb, trials>>
jobackVars == <<args, self, estimates>>

\* ------------------------------------------ smarts_fragment_priority
\* the calls that end before a molecule is looked at: neither argument given,
\* or a SMILES string that Chem.MolFromSmiles turns into None
InitNoMolecule ==
    /\ \/ rdkitmol = "None" /\ smi = "None"
       \/ rdkitmol \in {"None", "Mol"} /\ smi = "invalid"
    /\ result = <<>>
    /\ atom_count = 0
    /\ atomHs = EmptyFn
    /\ all_matches = EmptyFn

Init ==
    /\ \/ InitCallVars /\ InitMolecule
       \/ InitCallVars /\ InitSingleAtomPatterns
       \/ InitNoMolecule
    /\ catalog \in PriorityCatalogs
    /\ compiled = <<>>
    /\ pc = "start"
    /\ success = TRUE
    /\ status = Status(StatusOK, <<>>)
    /\ InitPriorityVars
    /\ InitStrictVars
    /\ InitCompareVars
    /\ InitJobackVars

\* lines 324-325: raise Exception('Either an rdkit mol or a smiles string ...')
NoMolecule ==
    /\ pc = "start"
    /\ rdkitmol = "None"
    /\ smi = "None"
    /\ pc' = "raised"
    /\ UNCHANGED <<inputVars, callVars, all_matches, success, status, result,
                   priorityVars, strictVars, compareVars, jobackVars>>

\* variant: the failure to construct the molecule leaves the status untouched
ConstructionFailedSilently ==
    /\ pc = "start"
    /\ smi = "invalid"
    /\ rdkitmol' = "None"
    /\ success' = FALSE
    /\ result' = <<EmptyFn, FALSE, status>>
    /\ pc' = "no_mol"
    /\ UNCHANGED <<inputVars, smi, all_matches, status, priorityVars, strictVars,
                   compareVars, jobackVars>>

\* lines 326-330: return {}, success, status
ConstructionFailed ==
    /\ pc = "start"
    /\ smi = "invalid"
    /\ rdkitmol' = "None"
    /\ status' = Status(StatusFailed, <<>>)
    /\ success' = FALSE
    /\ result' = <<EmptyFn, FALSE, Status(StatusFailed, <<>>)>>
    /\ pc' = "no_mol"
    /\ UNCHANGED <<inputVars, smi, all_matches, priorityVars, strictVars,
                   compareVars, jobackVars>>

\* return final_group_counts, final_assignments, matched_atoms, success, status
Return5(r, ok, st) ==
    <<r.final_group_counts, r.final_assignments, r.matched_atoms, ok, st>>

\* variant: the outputs of the unsuppressed pass are kept whatever pass ran
StorePassOfFirst(r, ignore) ==
    LET first == run_match(catalog_by_priority, all_matches, {}, all_atom_idxs, H_count)
    IN /\ matched_atoms' = first.matched_atoms
       /\ final_group_counts' = first.final_group_counts
       /\ final_assignments' = first.final_assignments
       /\ ignore_matches' = ignore

\* variant: matched_atoms is not emptied between two passes
StorePassKeepAtoms(r, ignore) ==
    /\ matched_atoms' = matched_atoms \cup r.matched_atoms
    /\ final_group_counts' = r.final_group_counts
    /\ final_assignments' = r.final_assignments
    /\ ignore_matches' = ignore

\* the outputs of one run_match call, and the suppressed set it was given
StorePass(r, ignore) ==
    /\ matched_atoms' = r.matched_atoms
    /\ final_group_counts' = r.final_group_counts
    /\ final_assignments' = r.final_assignments
    /\ ignore_matches' = ignore

\* lines 379-400: the unsuppressed pass and its verification.  An atom that is
\* in no tuple at all returns at once; a pass that verifies returns 'OK'; else
\* the two nested loops are entered at their first combination.
FirstPass ==
    /\ pc = "start"
    /\ rdkitmol = "Mol"
    /\ smi = "None"
    /\ LET r == run_match(catalog_by_priority, all_matches, {}, all_atom_idxs, H_count)
           ok == PassSucceeds(r)
           pos == FirstFrom(1, Len(things_to_ignore))
       IN /\ StorePass(r, {})
          /\ IF Cardinality(all_heavies_matched_by_a_pattern) # atom_count
             THEN /\ status' = Status(StatusNotAll, <<>>)
                  /\ success' = FALSE
                  /\ result' = Return5(r, FALSE, Status(StatusNotAll, <<>>))
                  /\ pc' = "done"
                  /\ UNCHANGED <<remove, comb>>
             ELSE /\ success' = ok
                  /\ UNCHANGED status
                  /\ IF ok
                     THEN /\ result' = Return5(r, ok, status)
                          /\ pc' = "done"
                          /\ UNCHANGED <<remove, comb>>
                     ELSE /\ pc' = "search"
                          /\ remove' = pos.remove
                          /\ comb' = pos.comb
                          /\ UNCHANGED result
    /\ UNCHANGED <<inputVars, callVars, all_matches, trials, strictVars, compareVars,
                   jobackVars>>

\* lines 412-429: one combination of the inner loop.  Success ends both loops;
\* failure moves on to the next combination.
Trial ==
    /\ pc = "search"
    /\ comb # NoComb
    /\ LET ignore == CombSet(comb)
           r == run_match(catalog_by_priority, all_matches, ignore, all_atom_idxs, H_count)
           ok == PassSucceeds(r)
           pos == Advance(remove, comb, Len(things_to_ignore))
       IN /\ StorePass(r, ignore)
          /\ success' = ok
          /\ IF ok
             THEN /\ result' = Return5(r, ok, status)
                  /\ pc' = "done"
                  /\ UNCHANGED <<remove, comb>>
             ELSE /\ pc' = "search"
                  /\ remove' = pos.remove
                  /\ comb' = pos.comb
                  /\ UNCHANGED result
    /\ trials' = trials + 1
    /\ UNCHANGED <<inputVars, callVars, all_matches, status, strictVars, compareVars,
                   jobackVars>>

\* variant: after the loops ran out the outputs of the unsuppressed pass are
\* returned
SearchExhaustedOfFirst ==
    /\ pc = "search"
    /\ comb = NoComb
    /\ status' = Status(StatusNotAll, <<>>)
    /\ result' = Return5(run_match(catalog_by_priority, all_matches, {},
                                    all_atom_idxs, H_count),
                          success, Status(StatusNotAll, <<>>))
    /\ pc' = "done"
    /\ UNCHANGED <<inputVars, callVars, all_matches, success, ignore_matches,
                   matched_atoms, final_group_counts, final_assignments, remove, comb,
                   trials, strictVars, compareVars, jobackVars>>

\* lines 431-434: both loops ran out without success
SearchExhausted ==
    /\ pc = "search"
    /\ comb = NoComb
    /\ status' = Status(StatusNotAll, <<>>)
    /\ result' = <<final_group_counts, final_assignments, matched_atoms, success,
                   Status(StatusNotAll, <<>>)>>
    /\ pc' = "done"
    /\ UNCHANGED <<inputVars, callVars, all_matches, success, ignore_matches,
                   matched_atoms, final_group_counts, final_assignments, remove, comb,
                   trials, strictVars, compareVars, jobackVars>>

Next ==
    \/ NoMolecule
    \/ ConstructionFailed
    \/ FirstPass
    \/ Trial
    \/ SearchExhausted

Spec == Init /\ [][Next]_vars

\* ------------------------------------------------------- smarts_fragment
\* variant: the atoms are gathered in a set, each atom once
MatchedAtomsOnce(am) ==
    Ascending(UNION {UNION {Range(am[g][i]) : i \in DOMAIN am[g]} : g \in DOMAIN am})

\* the flattened atom list: for i in all_matches.values(): for j in i: extend(j)
MatchedAtomList(am) ==
    Flatten([k \in DOMAIN MatchKeys |-> Flatten(am[MatchKeys[k]])])

CountIn(x, list) == Cardinality({i \in DOMAIN list : list[i] = x})

\* [i for i, c in Counter(matched_atoms).items() if c > 1]: a Counter lists
\* its keys in the order of their first occurrence
IsFirstRepeated(list, i) ==
    /\ \A j \in 1 .. (i - 1) : list[j] # list[i]
    /\ CountIn(list[i], list) > 1

RECURSIVE KeepFirstRepeated(_, _)
KeepFirstRepeated(list, i) ==
    IF i > Len(list) THEN <<>>
    ELSE (IF IsFirstRepeated(list, i) THEN <<list[i]>> ELSE <<>>)
         \o KeepFirstRepeated(list, i + 1)

\* variant: every counted atom is listed (c >= 1)
DupsOfCounted(list) == KeepFirstRepeated(list \o list, 1)

DupsOf(list) == KeepFirstRepeated(list, 1)

\* dup_smart_matches: (group, i, group_match_i, len(group_match_i)) of every
\* tuple that contains dup; i is the 0-based position in the group's list
GroupDupMatches(am, g, dup) ==
    LET hits == am[g]
        idxs == Ascending({i \in DOMAIN hits : dup \in Range(hits[i])})
    IN [k \in DOMAIN idxs |->
           [group |-> g, idx |-> idxs[k] - 1, positions |-> hits[idxs[k]],
            size |-> Len(hits[idxs[k]])]]

dup_smart_matches(am, dup) ==
    Flatten([k \in DOMAIN MatchKeys |-> GroupDupMatches(am, MatchKeys[k], dup)])

MaxOf(S) == CHOOSE x \in S : \A y \in S : y <= x

\* del lst[idx]: IndexError when idx is past the end
CanDelete(lst, idx) == idx < Len(lst)
DeleteAt(lst, idx) == SubSeq(lst, 1, idx) \o SubSeq(lst, idx + 2, Len(lst))

\* for group, idx, positions, size in dup_smart_matches:
\*     if size != max_size: del all_matches[group][idx]
\* with the indices computed before any deletion
RECURSIVE RemoveSmaller(_, _, _)
RemoveSmaller(am, dsm, max_size) ==
    IF dsm = <<>> THEN [raised |-> FALSE, all_matches |-> am]
    ELSE LET e == Head(dsm)
         IN IF e.size = max_size THEN RemoveSmaller(am, Tail(dsm), max_size)
            ELSE IF ~CanDelete(am[e.group], e.idx)
                 THEN [raised |-> TRUE, all_matches |-> am]
                 ELSE RemoveSmaller([am EXCEPT ![e.group] = DeleteAt(@, e.idx)],
                                    Tail(dsm), max_size)

\* variant: the comprehension of line 610 keeps every counted atom (c >= 1):
\* each atom once, in the order of its first occurrence
StatusDupsAll(list) == KeepFirstRepeated(list \o list, 1)

\* line 610: [i for i, c in Counter(matched_atoms).items() if c > 1]
StatusDups(list) == DupsOf(list)

StrictCatalog == <<[group_id |-> 1], [group_id |-> 2]>>

\* a molecule of up to NAtoms atoms and any hits of the two patterns
InitStrictMolecule ==
    /\ atom_count \in 1 .. NAtoms
    /\ \E hits \in [GroupIds -> HitLists(atom_count)] : all_matches = Collect(hits)

\* a molecule of one atom more, in which one pattern matches all atoms but one
\* and the other pattern matches pairs of atoms, up to MaxHits + 1 of them
InitLargePattern ==
    /\ atom_count = NAtoms + 1
    /\ \E big \in TuplesOfSize(NAtoms + 1, NAtoms),
          pairs \in DistinctSeqs(TuplesOfSize(NAtoms + 1, 2), MaxHits + 1),
          g \in GroupIds :
          all_matches = Collect([k \in GroupIds |-> IF k = g THEN <<big>> ELSE pairs])

InitStrict ==
    /\ InitStrictMolecule \/ InitLargePattern
    /\ atomHs = [a \in AtomsOf(atom_count) |-> 0]
    /\ catalog = StrictCatalog
    /\ compiled = <<>>
    /\ deduplicate \in BOOLEAN
    /\ pc = "start"
    /\ success = TRUE
    /\ status = Status(StatusOK, <<>>)
    /\ counts = EmptyFn
    /\ dups = <<>>
    /\ iteration = 0
    /\ InitPriorityVars
    /\ InitCompareVars
    /\ InitCallVars
    /\ InitJobackVars

\* lines 532-556: counts, and the first list of over-claimed atoms
StartStrict ==
    /\ pc = "start"
    /\ counts' = [g \in DOMAIN all_matches |-> Len(all_matches[g])]
    /\ dups' = IF deduplicate THEN DupsOf(MatchedAtomList(all_matches)) ELSE <<>>
    /\ iteration' = 0
    /\ pc' = "loop"
    /\ UNCHANGED <<inputVars, callVars, result, all_matches, success, status,
                   deduplicate, priorityVars, compareVars, jobackVars>>

LoopRuns == deduplicate /\ dups # <<>> /\ iteration < MaxIterations

\* lines 557-590: one pass through the body of the while loop
DedupRound ==
    /\ pc = "loop"
    /\ LoopRuns
    /\ LET dup == dups[1]
           dsm == dup_smart_matches(all_matches, dup)
           sizes == [k \in DOMAIN dsm |-> dsm[k].size]
           max_size == MaxOf(Range(sizes))
           res == RemoveSmaller(all_matches, dsm, max_size)
       IN IF CountIn(max_size, sizes) > 1
          THEN /\ iteration' = iteration + 1
               /\ UNCHANGED <<all_matches, dups, pc>>
          ELSE IF res.raised
               THEN /\ pc' = "raised"
                    /\ UNCHANGED <<all_matches, dups, iteration>>
               ELSE /\ all_matches' = res.all_matches
                    /\ dups' = DupsOf(MatchedAtomList(res.all_matches))
                    /\ iteration' = iteration + 1
                    /\ UNCHANGED pc
    /\ UNCHANGED <<inputVars, callVars, result, success, status, counts,
                   deduplicate, priorityVars, compareVars, jobackVars>>

\* lines 592-613: the coverage check and the return
FinishStrict ==
    /\ pc = "loop"
    /\ ~LoopRuns
    /\ LET list == MatchedAtomList(all_matches)
           covered == Cardinality(Range(list)) = atom_count
       IN IF ~covered
          THEN success' = FALSE /\ status' = Status(StatusNotAll, <<>>)
          ELSE IF Len(list) < atom_count
          THEN success' = FALSE /\ status' = Status(StatusOnly, <<Len(list), atom_count>>)
          ELSE IF Len(list) > atom_count
          THEN success' = FALSE /\ status' = Status(StatusRepeated, <<StatusDups(list)>>)
          ELSE UNCHANGED <<success, status>>
    /\ pc' = "done"
    /\ UNCHANGED <<inputVars, callVars, result, all_matches, counts, dups,
                   iteration, deduplicate, priorityVars, compareVars, jobackVars>>

NextStrict ==
    \/ StartStrict
    \/ DedupRound
    \/ FinishStrict

SpecStrict == InitStrict /\ [][NextStrict]_vars

\* ------------------------------------------------ either of the two modes
\* a call of smarts_fragment_priority or a call of smarts_fragment: the catalog
\* of the call tells the two apart, and no step of one runs in a call of the other
InitModes == Init \/ InitStrict

PriorityCall == catalog \in PriorityCatalogs /\ Next
StrictCall == catalog = StrictCatalog /\ NextStrict

NextModes ==
    \/ PriorityCall
    \/ StrictCall

SpecModes == InitModes /\ [][NextModes]_vars

\* ------------------------------------- run_match under two suppressed sets
\* run_match reads of a descriptor only group_id and atoms['H'], and of the
\* priorities only the order they induce
RunMatchCatalogs ==
    {c \in PriorityCatalogs :
        /\ ~c[1].hydrogen_from_smarts
        /\ ~c[2].hydrogen_from_smarts
        /\ c[1].priority # c[2].priority}

InitRunMatch ==
    /\ InitMolecule
    /\ catalog \in RunMatchCatalogs
    /\ compiled = <<>>
    /\ pc = "start"
    /\ success = TRUE
    /\ status = Status(StatusOK, <<>>)
    /\ InitPriorityVars
    /\ InitStrictVars
    /\ InitCompareVars
    /\ InitCallVars
    /\ InitJobackVars

Occurrences == Range(things_to_ignore)

\* run_match with a suppressed set S1
RunFirst ==
    /\ pc = "start"
    /\ \E S1 \in SUBSET Occurrences :
          LET r == run_match(catalog_by_priority, all_matches, S1, all_atom_idxs, H_count)
          IN /\ first_ignore' = S1
             /\ first_matched' = r.matched_atoms
    /\ pc' = "first"
    /\ UNCHANGED <<inputVars, callVars, result, all_matches, success, status,
                   priorityVars, strictVars, jobackVars>>

\* run_match with a suppressed set S2 that contains S1
RunSecond ==
    /\ pc = "first"
    /\ \E extra \in SUBSET (Occurrences \ first_ignore) :
          LET S2 == first_ignore \cup extra
              r == run_match(catalog_by_priority, all_matches, S2, all_atom_idxs, H_count)
          IN StorePass(r, S2)
    /\ pc' = "compared"
    /\ UNCHANGED <<inputVars, callVars, result, all_matches, success, status,
                   remove, comb, trials, strictVars, compareVars, jobackVars>>

NextRunMatch ==
    \/ RunFirst
    \/ RunSecond

SpecRunMatch == InitRunMatch /\ [][NextRunMatch]_vars

\* ------------------------------------------------------------------ Joback
\* Python's None, and a value that is there
None == <<>>
Some(v) == <<v>>

\* a decimal number kept exact: n/d * 10^e
Dec(n, d, e) == [num |-> n, den |-> d, exp10 |-> e]

\* largest count of one group in a fragmentation
MaxCount == 2

\* rows of joback_data_txt as joback_groups_id_dict holds them: -CH3 (1),
\* -N= nonring (34) and =NH (36).  Units: Tc, Pc 10^-4; Tb, Tm, Hform, Gform,
\* Cpa, mua 10^-2; Cpb 10^-5; Cpc 10^-7; Cpd 10^-10; Hfus, Hvap, mub 10^-3.
\* A cell 'n. a.' stays a string in the table: the row has no number for it.
joback_groups_id_dict ==
    (1 :> [Tc |-> 141, Pc |-> -12, Vc |-> 65, Tb |-> 2358, Tm |-> -510,
           Hform |-> -7645, Gform |-> -4396, Cpa |-> 1950, Cpb |-> -808,
           Cpc |-> 1530, Cpd |-> -967, Hfus |-> 908, Hvap |-> 2373,
           mua |-> 54829, mub |-> -1719])
    @@ (34 :> [Tc |-> 255, Pc |-> -99, Tb |-> 7460, Hform |-> 2361, Hvap |-> 3335])
    @@ (36 :> [Tb |-> 8308, Tm |-> 6891, Hform |-> 9370, Gform |-> 11966,
               Cpa |-> 569, Cpb |-> -412, Cpc |-> 1280, Cpd |-> -888,
               Hvap |-> 12169])

\* the groups a fragmentation can name: three of the table and one that is
\* not a key of joback_groups_id_dict
JobackGroupIds == {1, 34, 36, 42}

\* joback_groups_id_dict[group].col * count raises KeyError for an unknown
\* group, and adding the string 'n. a.' to the float total raises TypeError
MissingConstant(g, col) ==
    \/ g \notin DOMAIN joback_groups_id_dict
    \/ col \notin DOMAIN joback_groups_id_dict[g]

\* for group, count in counts.items(): tot += joback_groups_id_dict[group].col*count
RECURSIVE SumOver(_, _, _)
SumOver(col, c, G) ==
    IF G = {} THEN 0
    ELSE LET g == CHOOSE x \in G : TRUE
         IN joback_groups_id_dict[g][col] * c[g] + SumOver(col, c, G \ {g})

\* variant: a group without a number for the column is left out of the total
GroupSumSkipMissing(col, c) ==
    Some(SumOver(col, c, {g \in DOMAIN c : ~MissingConstant(g, col)}))

\* the total of one column inside try/except: None stands for the exception
\* that the bare `except` turns into `return None`
GroupSum(col, c) ==
    IF \E g \in DOMAIN c : MissingConstant(g, col) THEN None
    ELSE Some(SumOver(col, c, DOMAIN c))

\* Tb = 198.2 + tot
Tb(c) ==
    LET tot == GroupSum("Tb", c)
    IN IF tot = None THEN None ELSE Some(Dec(19820 + tot[1], 1, -2))

\* Tm = 122.5 + tot
Tm(c) ==
    LET tot == GroupSum("Tm", c)
    IN IF tot = None THEN None ELSE Some(Dec(12250 + tot[1], 1, -2))

\* if Tb is None: Tb = Joback.Tb(counts);  Tc = Tb/(0.584 + 0.965*tot - tot*tot)
\* (dividing None raises TypeError, dividing by zero ZeroDivisionError)
Tc(c, tb) ==
    LET b == IF tb = None THEN Tb(c) ELSE tb
        tot == GroupSum("Tc", c)
        D == 58400000 + 9650 * tot[1] - tot[1] * tot[1]
    IN IF tot = None \/ b = None THEN None
       ELSE IF D = 0 THEN None
       ELSE Some(Dec(b[1].num, b[1].den * D, b[1].exp10 + 8))

\* Pc = (0.113 + 0.0032*atom_count - tot)**-2;  return Pc*1E5
Pc(c, n) ==
    LET tot == GroupSum("Pc", c)
        base == 1130 + 32 * n - tot[1]
    IN IF tot = None THEN None
       ELSE IF base = 0 THEN None
       ELSE Some(Dec(1, base * base, 13))

\* Vc = 17.5 + tot;  return Vc*1E-6
Vc(c) ==
    LET tot == GroupSum("Vc", c)
    IN IF tot = None THEN None ELSE Some(Dec(175 + 10 * tot[1], 1, -7))

\* Hf = 68.29 + tot;  return Hf*1000
Hf(c) ==
    LET tot == GroupSum("Hform", c)
    IN IF tot = None THEN None ELSE Some(Dec(6829 + tot[1], 1, 1))

\* Gf = 53.88 + tot;  return Gf*1000
Gf(c) ==
    LET tot == GroupSum("Gform", c)
    IN IF tot = None THEN None ELSE Some(Dec(5388 + tot[1], 1, 1))

\* Hfus = -0.88 + tot;  return Hfus*1000
Hfus(c) ==
    LET tot == GroupSum("Hfus", c)
    IN IF tot = None THEN None ELSE Some(Dec(tot[1] - 880, 1, 0))

\* Hvap = 15.3 + tot;  return Hvap*1000
Hvap(c) ==
    LET tot == GroupSum("Hvap", c)
    IN IF tot = None THEN None ELSE Some(Dec(15300 + tot[1], 1, 0))

\* [a - 37.93, b + 0.210, c - 3.91E-4, d + 2.06E-7], the four totals in one try
Cpig_coeffs(c) ==
    LET a == GroupSum("Cpa", c)
        b == GroupSum("Cpb", c)
        cc == GroupSum("Cpc", c)
        d == GroupSum("Cpd", c)
    IN IF a = None \/ b = None \/ cc = None \/ d = None THEN None
       ELSE Some(<<Dec(a[1] - 3793, 1, -2), Dec(b[1] + 21000, 1, -5),
                   Dec(cc[1] - 3910, 1, -7), Dec(d[1] + 2060, 1, -10)>>)

\* [a - 597.82, b - 11.202], the two totals in one try
mul_coeffs(c) ==
    LET a == GroupSum("mua", c)
        b == GroupSum("mub", c)
    IN IF a = None \/ b = None THEN None
       ELSE Some(<<Dec(a[1] - 59782, 1, -2), Dec(b[1] - 11202, 1, -3)>>)

\* an attribute read: the instance's value, else the class attribute
\* (calculated_Cpig_coeffs = None, calculated_mul_coeffs = None)
GetAttr(obj, name) == IF name \in DOMAIN obj THEN obj[name] ELSE None

\* what smarts_fragment returns for a molecule: counts of some groups
JobackCounts ==
    UNION {[G -> 1 .. MaxCount] : G \in SUBSET JobackGroupIds}

Fragmentations ==
    {[counts |-> c, success |-> TRUE, status |-> Status(StatusOK, <<>>)] :
        c \in JobackCounts}
    \cup {[counts |-> c, success |-> FALSE, status |-> Status(StatusNotAll, <<>>)] :
             c \in JobackCounts}

\* a molecule as the constructor sees it: the atoms AddHs gives it, its exact
\* weight, and its fragmentation (10 atoms and 58.04 g/mol are acetone's)
JobackMols ==
    {[atoms_Hs |-> 10, ExactMolWt |-> Dec(5804, 1, -2), fragments |-> f] :
        f \in Fragmentations}

JobackArgs ==
    [mol : JobackMols,
     atom_count : {None, Some(10)},
     MW : {None, Some(Dec(5808, 1, -2))},
     Tb : {None, Some(Dec(32920, 1, -2))}]

InitJoback ==
    /\ args \in JobackArgs
    /\ self = <<>>
    /\ estimates = <<>>
    /\ pc = "start"
    /\ atom_count = 0
    /\ atomHs = EmptyFn
    /\ all_matches = EmptyFn
    /\ catalog = StrictCatalog
    /\ compiled = <<>>
    /\ success = TRUE
    /\ status = Status(StatusOK, <<>>)
    /\ InitPriorityVars
    /\ InitStrictVars
    /\ InitCompareVars
    /\ InitCallVars

\* lines 708-716: self.rdkitmol; then rdkitmol_Hs and the counted atoms only
\* when atom_count is not given
AfterAtomCount ==
    IF args.atom_count = None
    THEN ("atom_count" :> args.mol.atoms_Hs) @@ ("rdkitmol_Hs" :> "Mol")
         @@ ("rdkitmol" :> "Mol")
    ELSE ("atom_count" :> args.atom_count[1]) @@ ("rdkitmol" :> "Mol")

\* line 718 reads self.rdkitmol_Hs: AttributeError when it was never set
CanWeigh(obj) == "rdkitmol_Hs" \in DOMAIN obj

\* lines 717-727: MW, the fragmentation, Tb_estimated
AfterInit(obj) ==
    LET f == args.mol.fragments
    IN ("Tb_estimated" :> IF args.Tb # None THEN Tb(f.counts) ELSE args.Tb)
       @@ ("counts" :> f.counts) @@ ("success" :> f.success) @@ ("status" :> f.status)
       @@ ("MW" :> IF args.MW = None THEN args.mol.ExactMolWt ELSE args.MW[1])
       @@ obj

\* Joback.__init__
Construct ==
    /\ pc = "start"
    /\ IF args.MW = None /\ ~CanWeigh(AfterAtomCount)
       THEN /\ self' = AfterAtomCount
            /\ pc' = "AttributeError"
       ELSE /\ self' = AfterInit(AfterAtomCount)
            /\ pc' = "constructed"
    /\ UNCHANGED <<inputVars, callVars, result, all_matches, success, status, args,
                   estimates, priorityVars, strictVars, compareVars>>

\* self.mul(300) and self.Cpig(300): the coefficients are computed once
WithCoeffs(obj) ==
    ("calculated_mul_coeffs" :>
        IF GetAttr(obj, "calculated_mul_coeffs") = None
        THEN mul_coeffs(obj.counts) ELSE obj.calculated_mul_coeffs)
    @@ ("calculated_Cpig_coeffs" :>
        IF GetAttr(obj, "calculated_Cpig_coeffs") = None
        THEN Cpig_coeffs(obj.counts) ELSE obj.calculated_Cpig_coeffs)
    @@ obj

\* the dict of lines 740-750
Estimates(obj) ==
    [Tb |-> Tb(obj.counts),
     Tm |-> Tm(obj.counts),
     Tc |-> Tc(obj.counts, obj.Tb_estimated),
     Pc |-> Pc(obj.counts, obj.atom_count),
     Vc |-> Vc(obj.counts),
     Hf |-> Hf(obj.counts),
     Gf |-> Gf(obj.counts),
     Hfus |-> Hfus(obj.counts),
     Hvap |-> Hvap(obj.counts),
     mul_coeffs |-> obj.calculated_mul_coeffs,
     Cpig_coeffs |-> obj.calculated_Cpig_coeffs]

\* lines 751-753: the two bound methods
Callables == [mul |-> Some("self.mul"), Cpig |-> Some("self.Cpig")]

\* Joback.estimate
Estimate ==
    /\ pc = "constructed"
    /\ \E callables \in BOOLEAN :
          IF self.counts = EmptyFn
          THEN /\ pc' = "ValueError"
               /\ UNCHANGED <<self, estimates>>
          ELSE /\ self' = WithCoeffs(self)
               /\ estimates' = IF callables
                               THEN Callables @@ Estimates(WithCoeffs(self))
                               ELSE Estimates(WithCoeffs(self))
               /\ pc' = "estimated"
    /\ UNCHANGED <<inputVars, callVars, result, all_matches, success, status, args,
                   priorityVars, strictVars, compareVars>>

NextJoback ==
    \/ Construct
    \/ Estimate

SpecJoback == InitJoback /\ [][NextJoback]_vars

\* ------------------------------------------------- class VaporPressure
\* temperatures are counted in hundredths of a kelvin
EstimatedTmin == 1

WAGNER_MCGARRY == "WAGNER_MCGARRY"
ANTOINE_POLING == "ANTOINE_POLING"
BOILING_CRITICAL == "BOILING_CRITICAL"
CorrespondingStates == {"LEE_KESLER_PSAT", "AMBROSE_WALTON", "SANJARI", "Edalat"}
EOS == "EOS"

\* the rows of the data tables: a chemical is in no table, in one, or in two
TableLow == 20000
TableHigh == 50000
Psat_data ==
    [c \in {"64-17-5", "7732-18-5"} |->
        IF c = "64-17-5"
        THEN <<[methods |-> {WAGNER_MCGARRY}, Tmin |-> TableLow, Tmax |-> TableHigh]>>
        ELSE <<[methods |-> {WAGNER_MCGARRY}, Tmin |-> TableLow + 1, Tmax |-> TableHigh + 1],
               [methods |-> {ANTOINE_POLING}, Tmin |-> TableLow - 1, Tmax |-> TableHigh - 1]>>]

\* if load_data: one block per table that has self.CASRN in its index
DataMethods(obj, load_data) ==
    IF load_data /\ obj.CASRN \in DOMAIN Psat_data THEN Psat_data[obj.CASRN] ELSE <<>>

\* the truth value of an optional number or object: None and 0 are false
Truthy(v) == v # None /\ v[1] # 0

\* if all((self.Tb, self.Tc, self.Pc))
BoilingCritical(obj) ==
    IF Truthy(obj.Tb) /\ Truthy(obj.Tc) /\ Truthy(obj.Pc)
    THEN <<[methods |-> {BOILING_CRITICAL}, Tmin |-> EstimatedTmin, Tmax |-> obj.Tc[1]]>>
    ELSE <<>>

\* if all((self.Tc, self.Pc, self.omega)), and in it: if self.eos
FromOmega(obj) ==
    IF Truthy(obj.Tc) /\ Truthy(obj.Pc) /\ Truthy(obj.omega)
    THEN <<[methods |-> CorrespondingStates \cup (IF Truthy(obj.eos) THEN {EOS} ELSE {}),
            Tmin |-> EstimatedTmin, Tmax |-> obj.Tc[1]]>>
    ELSE <<>>

MinOf(S) == CHOOSE x \in S : \A y \in S : x <= y

\* VaporPressure.load_all_methods: all_methods is set anew; Tmin and Tmax are
\* assigned only `if Tmins and Tmaxs`
load_all_methods(obj, load_data) ==
    LET found == DataMethods(obj, load_data) \o BoilingCritical(obj) \o FromOmega(obj)
        Tmins == {found[i].Tmin : i \in DOMAIN found}
        Tmaxs == {found[i].Tmax : i \in DOMAIN found}
    IN [obj EXCEPT
           !.all_methods = UNION {found[i].methods : i \in DOMAIN found},
           !.Tmin = IF found # <<>> THEN Some(MinOf(Tmins)) ELSE @,
           !.Tmax = IF found # <<>> THEN Some(MaxOf(Tmaxs)) ELSE @]

\* the arguments of the constructor and the values later assigned to the
\* attributes of the same names
OptionalNumbers == {None, Some(0), Some(TableHigh)}
Parameters ==
    [Tb : {None, Some(TableLow)}, Tc : OptionalNumbers, Pc : {None, Some(TableLow)},
     omega : OptionalNumbers, CASRN : {"", "64-17-5", "7732-18-5"},
     eos : {None, Some(1)}]

\* VaporPressure.__init__ up to the call of load_all_methods (best_fit=None)
NewVaporPressure(p) ==
    [Tb |-> p.Tb, Tc |-> p.Tc, Pc |-> p.Pc, omega |-> p.omega, CASRN |-> p.CASRN,
     eos |-> p.eos, Tmin |-> None, Tmax |-> None, all_methods |-> {}]

\* the object VaporPressure(**p, load_data=load_data) returns
VaporPressure(p, load_data) == load_all_methods(NewVaporPressure(p), load_data)

InitVaporPressure ==
    /\ \E p \in Parameters, load_data \in BOOLEAN :
          args = [parameters |-> p, load_data |-> load_data]
    /\ self = <<>>
    /\ estimates = <<>>
    /\ pc = "start"
    /\ atom_count = 0
    /\ atomHs = EmptyFn
    /\ all_matches = EmptyFn
    /\ catalog = StrictCatalog
    /\ compiled = <<>>
    /\ success = TRUE
    /\ status = Status(StatusOK, <<>>)
    /\ InitPriorityVars
    /\ InitStrictVars
    /\ InitCompareVars
    /\ InitCallVars

\* VaporPressure(Tb, Tc, Pc, omega, CASRN, eos, load_data=...)
ConstructVaporPressure ==
    /\ pc = "start"
    /\ self' = VaporPressure(args.parameters, args.load_data)
    /\ pc' = "loaded"
    /\ UNCHANGED <<inputVars, callVars, result, all_matches, success, status, args,
                   estimates, priorityVars, strictVars, compareVars>>

\* the caller assigns the six parameters of the object
ChangeParameters ==
    /\ pc = "loaded"
    /\ \E p \in Parameters :
          /\ self' = [self EXCEPT !.Tb = p.Tb, !.Tc = p.Tc, !.Pc = p.Pc,
                                  !.omega = p.omega, !.CASRN = p.CASRN, !.eos = p.eos]
          /\ args' = [args EXCEPT !.parameters = p]
    /\ pc' = "changed"
    /\ UNCHANGED <<inputVars, callVars, result, all_matches, success, status,
                   estimates, priorityVars, strictVars, compareVars>>

\* self.load_all_methods(load_data) called again
Reload ==
    /\ pc = "changed"
    /\ \E load_data \in BOOLEAN :
          /\ self' = load_all_methods(self, load_data)
          /\ args' = [args EXCEPT !.load_data = load_data]
    /\ pc' = "loaded"
    /\ UNCHANGED <<inputVars, callVars, result, all_matches, success, status,
                   estimates, priorityVars, strictVars, compareVars>>

NextVaporPressure ==
    \/ ConstructVaporPressure
    \/ ChangeParameters
    \/ Reload

SpecVaporPressure == InitVaporPressure /\ [][NextVaporPressure]_vars

\* ============================================================ properties
Returned == pc = "done"

\* the occurrences (group, position) of an assignment or a MatchSet
OccurrencesOf(f) == UNION {{<<g, i>> : i \in DOMAIN f[g]} : g \in DOMAIN f}
AtomsAt(f, o) == Range(f[o[1]][o[2]])

\* the atoms that no tuple of the collected MatchSet contains
UnmatchedAtoms ==
    {a \in all_atom_idxs : \A o \in OccurrencesOf(all_matches) : a \notin AtomsAt(all_matches, o)}

\* two tuples of the MatchSet share an atom
MatchSetOverlaps ==
    \E o1, o2 \in OccurrencesOf(all_matches) :
        o1 # o2 /\ AtomsAt(all_matches, o1) \cap AtomsAt(all_matches, o2) # {}

\* C1: in every result returned by smarts_fragment_priority no atom is in two
\* different tuples of the returned group assignments
C1_NonOverlap ==
    Returned =>
        \A o1, o2 \in OccurrencesOf(final_assignments) :
            o1 # o2 => AtomsAt(final_assignments, o1) \cap AtomsAt(final_assignments, o2) = {}

\* a search over an overlapping MatchSet returned two or more tuples
C1_Witness ==
    /\ Returned
    /\ trials > 0
    /\ MatchSetOverlaps
    /\ Cardinality(OccurrencesOf(final_assignments)) >= 2

\* the hydrogens an assignment implies: per occurrence the attached hydrogens
\* of its atoms when the group reads them from the match, else the group's
\* fixed count
DescriptorOf(g) == CHOOSE d \in Range(catalog) : d.group_id = g

RECURSIVE AttachedHydrogens(_)
AttachedHydrogens(S) ==
    IF S = {} THEN 0
    ELSE LET a == CHOOSE x \in S : TRUE IN atomHs[a] + AttachedHydrogens(S \ {a})

RECURSIVE ImpliedHydrogens(_, _)
ImpliedHydrogens(f, O) ==
    IF O = {} THEN 0
    ELSE LET o == CHOOSE x \in O : TRUE
             h == IF DescriptorOf(o[1]).hydrogen_from_smarts
                  THEN AttachedHydrogens(AtomsAt(f, o))
                  ELSE DescriptorOf(o[1]).atoms_H
         IN h + ImpliedHydrogens(f, O \ {o})

MoleculeHydrogens == AttachedHydrogens(all_atom_idxs)

\* C2: a returned result has success = TRUE exactly when matched_atoms is the
\* whole atom set and the implied hydrogen total is the molecule's
C2_SuccessIffCovered ==
    Returned =>
        (success <=>
            /\ matched_atoms = all_atom_idxs
            /\ ImpliedHydrogens(final_assignments, OccurrencesOf(final_assignments))
                   = MoleculeHydrogens)

\* a search ended in success with a group that reads its hydrogens from the match
C2_Witness ==
    /\ Returned
    /\ success
    /\ trials > 0
    /\ \E g \in DOMAIN final_assignments : DescriptorOf(g).hydrogen_from_smarts
    /\ MoleculeHydrogens > 0

\* the occurrences (group, tuple) that the pass under the suppressed set S accepts
AcceptedUnder(S) ==
    LET r == run_match(catalog_by_priority, all_matches, S, all_atom_idxs, H_count)
    IN {<<o[1], r.final_assignments[o[1]][o[2]]>> : o \in OccurrencesOf(r.final_assignments)}

\* an occurrence that shares no atom with any other occurrence of the MatchSet
Isolated(x) == \A y \in Occurrences : y # x => Range(y[2]) \cap Range(x[2]) = {}

Compared == pc = "compared"

\* C3 as stated: with S1 a subset of S2, run_match under S2 never matches more
\* atoms than under S1
C3_Monotonic ==
    Compared => Cardinality(matched_atoms) <= Cardinality(first_matched)

\* C3 amended: when every occurrence added to the suppressed set either was not
\* accepted under S1 or shares no atom with any other occurrence, the pass under
\* S2 matches the atoms matched under S1 less those of the added accepted
\* occurrences, so never more atoms
C3_MonotonicWhenUncontested ==
    Compared =>
        LET added == ignore_matches \ first_ignore
            taken == added \cap AcceptedUnder(first_ignore)
        IN (\A x \in taken : Isolated(x)) =>
              /\ matched_atoms = first_matched \ UNION {Range(x[2]) : x \in taken}
              /\ Cardinality(matched_atoms) <= Cardinality(first_matched)

\* an accepted uncontested occurrence and a rejected one were both suppressed
C3_Witness ==
    /\ Compared
    /\ LET added == ignore_matches \ first_ignore
           taken == added \cap AcceptedUnder(first_ignore)
       IN /\ taken # {}
          /\ added \ taken # {}
          /\ \A x \in taken : Isolated(x)
          /\ matched_atoms # first_matched

\* C4: smarts_fragment and smarts_fragment_priority end by returning a result,
\* never by raising
C4_NeverRaises == pc # "raised"

\* the number of tuples of g that all_matches still holds
KeptTuples(g) == IF g \in DOMAIN all_matches THEN Len(all_matches[g]) ELSE 0

\* C5: the counts returned by smarts_fragment are the numbers of tuples kept
\* after the dedup loop, and a group with no tuple left is not counted
C5_CountsAreKeptTuples ==
    Returned =>
        \A g \in GroupIds :
            /\ g \in DOMAIN counts => counts[g] = KeptTuples(g)
            /\ g \in DOMAIN counts <=> KeptTuples(g) > 0

\* C7: when an atom is in no tuple of the MatchSet, smarts_fragment_priority
\* makes no suppression trial and returns success = FALSE with the status
\* 'Did not match all atoms present'
C7_UnmatchedReturnsAtOnce ==
    UnmatchedAtoms # {} =>
        /\ trials = 0
        /\ pc \in {"start", "done"}
        /\ Returned => (~success /\ status = Status(StatusNotAll, <<>>))

\* the return for a MatchSet that has candidates to suppress but misses an atom
C7_Witness ==
    /\ Returned
    /\ UnmatchedAtoms # {}
    /\ Cardinality(Occurrences) >= 2
    /\ matched_atoms # {}

\* verification of the pass under the suppressed set S
Verifies(S) ==
    PassSucceeds(run_match(catalog_by_priority, all_matches, S, all_atom_idxs, H_count))

\* index tuples of one length in the order combinations() yields them
RECURSIVE LexLess(_, _)
LexLess(c, d) ==
    IF c = <<>> THEN FALSE
    ELSE Head(c) < Head(d) \/ (Head(c) = Head(d) /\ LexLess(Tail(c), Tail(d)))

IndexTuples(k, m) ==
    {Ascending(I) : I \in {J \in SUBSET (1 .. m) : Cardinality(J) = k}}

\* C8: a search that succeeds with k suppressed occurrences has seen the
\* unsuppressed pass and every combination of fewer than k occurrences fail, and
\* the succeeding combination is the last one tried
C8_SmallestSizeFirst ==
    (Returned /\ success /\ trials > 0) =>
        LET k == Cardinality(ignore_matches)
            m == Len(things_to_ignore)
            earlier == {c \in IndexTuples(k, m) : LexLess(c, comb)}
            smaller == UNION {IndexTuples(j, m) : j \in 1 .. (k - 1)}
        IN /\ k \in 1 .. remove_up_to
           /\ ignore_matches = CombSet(comb)
           /\ Len(comb) = k
           /\ ~Verifies({})
           /\ \A c \in smaller \cup earlier : ~Verifies(CombSet(c))
           /\ Verifies(ignore_matches)
           /\ trials = Cardinality(smaller) + Cardinality(earlier) + 1

\* success needed two suppressed occurrences
C8_Witness ==
    /\ Returned
    /\ success
    /\ Cardinality(ignore_matches) = 2
    /\ trials > Len(things_to_ignore)

\* C9: the failure of a molecule every atom of which is matched by some pattern
\* has another status than the failure for an atom matched by no pattern, which
\* is 'Did not match all atoms present'
C9_StatusesDiffer ==
    (Returned /\ ~success /\ UnmatchedAtoms = {}) => status # Status(StatusNotAll, <<>>)

\* the atoms that more than one tuple of all_matches claims
ClaimsOn(a) ==
    Cardinality({o \in OccurrencesOf(all_matches) : a \in AtomsAt(all_matches, o)})
OverClaimed == {a \in all_atom_idxs : ClaimsOn(a) > 1}

\* C10: when the MatchSet left by the dedup loop covers every atom and some
\* atom is claimed more than once, smarts_fragment returns success = FALSE
\* and 'Matched some atoms repeatedly: L', L being those atoms
C10_RepeatedAtomsListed ==
    (Returned /\ UnmatchedAtoms = {} /\ OverClaimed # {}) =>
        /\ ~success
        /\ status.text = StatusRepeated
        /\ Len(status.args) = 1
        /\ Range(status.args[1]) = OverClaimed
        /\ Len(status.args[1]) = Cardinality(OverClaimed)

\* two groups that both match the two atoms of a molecule, after the loop
\* used up its iterations
C10_Witness ==
    /\ Returned
    /\ atom_count = 2
    /\ all_matches = (1 :> << <<0, 1>> >>) @@ (2 :> << <<0, 1>> >>)
    /\ iteration = MaxIterations
    /\ status = Status(StatusRepeated, << <<0, 1>> >>)

\* C11: when smarts_fragment returns success = TRUE, every atom of the molecule
\* is in exactly one tuple of the MatchSet left by the dedup loop
C11_SuccessIsPartition ==
    (Returned /\ success) =>
        /\ status = Status(StatusOK, <<>>)
        /\ \A a \in all_atom_idxs : ClaimsOn(a) = 1

\* a success after the dedup loop discarded a tuple
C11_Witness ==
    /\ Returned
    /\ success
    /\ iteration > 0
    /\ \E g \in DOMAIN counts : KeptTuples(g) < counts[g]
    /\ Cardinality(OccurrencesOf(all_matches)) >= 2

\* C12: from a MatchSet in which no atom is claimed by more than one tuple, no
\* step of smarts_fragment changes a tuple list or counts a loop iteration, and
\* the step after the collection is the return
C12_DedupIdempotent ==
    [][OverClaimed = {} =>
          /\ all_matches' = all_matches
          /\ iteration' = iteration
          /\ pc = "loop" => pc' = "done"]_vars

\* the return for a collected MatchSet of several tuples without a repeated
\* atom, the dedup loop being enabled
C12_Witness ==
    /\ Returned
    /\ deduplicate
    /\ OverClaimed = {}
    /\ iteration = 0
    /\ \A g \in DOMAIN counts : KeptTuples(g) = counts[g]
    /\ Cardinality(OccurrencesOf(all_matches)) >= 2

\* C13: in every five-component result the counts and the group assignments
\* have the same groups, the count of a group is the number of its tuples, and
\* no count is zero
C13_CountsMatchAssignments ==
    Returned =>
        /\ DOMAIN final_group_counts = DOMAIN final_assignments
        /\ \A g \in DOMAIN final_group_counts :
              /\ final_group_counts[g] = Len(final_assignments[g])
              /\ final_group_counts[g] > 0

\* a search returned a group with two tuples and another group with one
C13_Witness ==
    /\ Returned
    /\ trials > 0
    /\ \E g, h \in DOMAIN final_group_counts :
          final_group_counts[g] = 2 /\ final_group_counts[h] = 1

\* C14: in every five-component result matched_atoms is the union of the atoms
\* of the tuples of the returned group assignments
C14_MatchedIsUnion ==
    Returned =>
        matched_atoms =
            UNION {AtomsAt(final_assignments, o) : o \in OccurrencesOf(final_assignments)}

\* a search succeeded: the returned atoms are those of its last pass, the
\* unsuppressed pass having matched fewer
C14_Witness ==
    /\ Returned
    /\ success
    /\ trials > 1
    /\ matched_atoms = all_atom_idxs
    /\ run_match(catalog_by_priority, all_matches, {}, all_atom_idxs, H_count).matched_atoms
           # all_atom_idxs

\* C15: smarts_fragment_priority hands back five components on every return
\* path, the failure to construct the molecule included
C15_AlwaysFiveComponents ==
    pc \in {"done", "no_mol"} => Len(result) = 5

\* the two groups of the catalog have equal priority, both have tuples, and the
\* first tuples of the two share an atom
TieContest ==
    /\ Returned
    /\ catalog[1].priority = catalog[2].priority
    /\ DOMAIN all_matches = {catalog[1].group_id, catalog[2].group_id}
    /\ Range(all_matches[1][1]) \cap Range(all_matches[2][1]) # {}

\* nothing but the other group keeps the first tuple of g from being accepted:
\* it is not suppressed and the whole-molecule hydrogen guard lets it pass
FirstTupleFree(g) ==
    /\ <<g, all_matches[g][1]>> \notin ignore_matches
    /\ ~(/\ Range(all_matches[g][1]) = all_atom_idxs
         /\ H_count # 0
         /\ DescriptorOf(g).atoms_H # H_count)

\* the first tuple of g was accepted
FirstTupleAccepted(g) ==
    /\ g \in DOMAIN final_assignments
    /\ final_assignments[g][1] = all_matches[g][1]

WholeMoleculeAccepted ==
    {o \in OccurrencesOf(final_assignments) : AtomsAt(final_assignments, o) = all_atom_idxs}

\* C20 as stated: no pass accepts a tuple that holds every atom of the molecule
\* when the declared hydrogen count of its group differs from the molecule's,
\* whatever that count is
C20_GuardForEveryCount ==
    Returned =>
        \A o \in WholeMoleculeAccepted : DescriptorOf(o[1]).atoms_H = MoleculeHydrogens

\* C20 amended: the same for a molecule that has hydrogens; in a molecule
\* without hydrogens the guard is off and such a tuple is accepted
C20_GuardWhenHydrogens ==
    Returned =>
        \A o \in WholeMoleculeAccepted :
            MoleculeHydrogens = 0 \/ DescriptorOf(o[1]).atoms_H = MoleculeHydrogens

\* in a molecule with hydrogens the guard skipped a whole-molecule tuple of one
\* group, and the tuples of the other group were accepted
C20_Witness ==
    /\ Returned
    /\ MoleculeHydrogens > 0
    /\ matched_atoms = all_atom_idxs
    /\ WholeMoleculeAccepted = {}
    /\ \E x \in Occurrences \ ignore_matches :
          /\ Range(x[2]) = all_atom_idxs
          /\ DescriptorOf(x[1]).atoms_H # MoleculeHydrogens
          /\ DescriptorOf(x[1]).priority > 1

\* the eleven estimated properties and the columns of the table each reads
JobackProperties ==
    {"Tb", "Tm", "Tc", "Pc", "Vc", "Hf", "Gf", "Hfus", "Hvap", "mul_coeffs",
     "Cpig_coeffs"}

ColumnsRead(P) ==
    CASE P = "Tb" -> {"Tb"}
      [] P = "Tm" -> {"Tm"}
      [] P = "Tc" -> {"Tc", "Tb"}
      [] P = "Pc" -> {"Pc"}
      [] P = "Vc" -> {"Vc"}
      [] P = "Hf" -> {"Hform"}
      [] P = "Gf" -> {"Gform"}
      [] P = "Hfus" -> {"Hfus"}
      [] P = "Hvap" -> {"Hvap"}
      [] P = "mul_coeffs" -> {"mua", "mub"}
      [] P = "Cpig_coeffs" -> {"Cpa", "Cpb", "Cpc", "Cpd"}

\* a group of the fragmentation has no number for a column that P reads
LacksConstant(P) ==
    \E g \in DOMAIN self.counts :
        \/ g \notin {1, 34, 36}
        \/ ColumnsRead(P) \ DOMAIN joback_groups_id_dict[g] # {}

Estimated == pc = "estimated"

\* C16: estimate() on counts that name at least one group does not raise; a
\* property is None exactly when some group lacks a constant the property
\* reads, and every other property has its value
C16_MissingConstantGivesNone ==
    /\ pc = "ValueError" => self.counts = EmptyFn
    /\ Estimated =>
          \A P \in JobackProperties : (estimates[P] = None) <=> LacksConstant(P)

\* a group without critical constants and a complete one: the estimate lacks
\* Tc and Pc and has Tb and Hvap
C16_Witness ==
    /\ Estimated
    /\ DOMAIN self.counts = {1, 36}
    /\ estimates.Tc = None
    /\ estimates.Pc = None
    /\ estimates.Tb # None
    /\ estimates.Hvap # None

\* C17: when a boiling point is passed to the constructor, the critical
\* temperature that estimate() returns is Tc computed with that boiling point
C17_GivenTbUsedForTc ==
    (Estimated /\ args.Tb # None) => estimates.Tc = Tc(self.counts, args.Tb)

\* C18: the constructor returns an object for every combination of its
\* optional arguments
C18_ConstructionSucceeds == pc # "AttributeError"

\* the occurrences (group, tuple) of the returned group assignments
AcceptedOccurrences ==
    {<<o[1], final_assignments[o[1]][o[2]]>> : o \in OccurrencesOf(final_assignments)}

\* the place of an occurrence in the visiting order of run_match: the position
\* of its group in the priority order cbp, then of its tuple in the group's list
GroupRank(cbp, g) == CHOOSE i \in DOMAIN cbp : cbp[i].group_id = g
TupleRank(x) == CHOOSE i \in DOMAIN all_matches[x[1]] : all_matches[x[1]][i] = x[2]
VisitedBefore(cbp, y, x) ==
    \/ GroupRank(cbp, y[1]) < GroupRank(cbp, x[1])
    \/ y[1] = x[1] /\ TupleRank(y) < TupleRank(x)

\* the whole-molecule hydrogen guard rejects the occurrence
GuardRejects(x) ==
    /\ Range(x[2]) = all_atom_idxs
    /\ MoleculeHydrogens # 0
    /\ DescriptorOf(x[1]).atoms_H # MoleculeHydrogens

\* C21: in a returned pass an occurrence is accepted exactly when it is not
\* suppressed, not rejected by the whole-molecule hydrogen guard and shares no
\* atom with an occurrence accepted before it in the visiting order; so every
\* occurrence neither suppressed nor guarded has an atom in matched_atoms
C21_GreedyAcceptance ==
    Returned =>
        LET accepted == AcceptedOccurrences
            cbp == catalog_by_priority
        IN \A x \in Occurrences :
            /\ x \in accepted <=>
                  /\ x \notin ignore_matches
                  /\ ~GuardRejects(x)
                  /\ \A y \in accepted :
                        VisitedBefore(cbp, y, x) => Range(y[2]) \cap Range(x[2]) = {}
            /\ (x \notin ignore_matches /\ ~GuardRejects(x)) =>
                  Range(x[2]) \cap matched_atoms # {}

\* the last pass of a search over a molecule with hydrogens left out one
\* occurrence as suppressed and another as overlapping an occurrence accepted
\* before it
C21_Witness ==
    /\ Returned
    /\ trials > 0
    /\ MoleculeHydrogens > 0
    /\ \E x \in Occurrences \ (ignore_matches \cup AcceptedOccurrences) :
          /\ ~GuardRejects(x)
          /\ \E y \in AcceptedOccurrences :
                /\ VisitedBefore(catalog_by_priority, y, x)
                /\ Range(y[2]) \cap Range(x[2]) # {}
    /\ ignore_matches # {}
    /\ AcceptedOccurrences # {}

\* the sets of between 1 and remove_up_to occurrences of the MatchSet
SuppressionSets ==
    {S \in SUBSET Occurrences : Cardinality(S) \in 1 .. remove_up_to}

\* C22: for a molecule every atom of which is in some tuple and whose
\* unsuppressed pass fails verification, smarts_fragment_priority returns
\* success = TRUE exactly when the pass under some set of 1 to 5 suppressed
\* occurrences verifies, and what it then returns is the pass under such a set
C22_SearchFindsAnySet ==
    (Returned /\ UnmatchedAtoms = {} /\ ~Verifies({})) =>
        /\ success <=> \E S \in SuppressionSets : Verifies(S)
        /\ success =>
              /\ ignore_matches \in SuppressionSets
              /\ Verifies(ignore_matches)
              /\ LET r == run_match(catalog_by_priority, all_matches, ignore_matches,
                                    all_atom_idxs, H_count)
                 IN /\ final_group_counts = r.final_group_counts
                    /\ final_assignments = r.final_assignments
                    /\ matched_atoms = r.matched_atoms

\* a search succeeded by suppressing two occurrences, the only set of
\* occurrences under which the pass verifies
C22_Witness ==
    /\ Returned
    /\ success
    /\ UnmatchedAtoms = {}
    /\ Cardinality(ignore_matches) = 2
    /\ \A S \in SuppressionSets : Verifies(S) => S = ignore_matches

\* the last combination that the two loops try over m things: the greatest
\* size up to remove_up_to that m allows, and of that size the last indices
LastCombination(m) ==
    LET k == IF m < remove_up_to THEN m ELSE remove_up_to
    IN [i \in 1 .. k |-> m - k + i]

\* the number of combinations of the sizes 1 .. remove_up_to over m things
AllCombinations(m) ==
    Cardinality({S \in SUBSET (1 .. m) : Cardinality(S) \in 1 .. remove_up_to})

SearchFailed == Returned /\ ~success /\ trials > 0

\* C29: a search that ran out of combinations returns the counts, assignments
\* and matched atoms of the pass under the last combination it tried, not those
\* of the unsuppressed pass; when there are no more than 5 occurrences that
\* combination suppresses them all and what is returned is empty
C29_ExhaustedReturnsLastTrial ==
    SearchFailed =>
        LET m == Len(things_to_ignore)
            last == run_match(catalog_by_priority, all_matches,
                              CombSet(LastCombination(m)), all_atom_idxs, H_count)
        IN /\ trials = AllCombinations(m)
           /\ ignore_matches = CombSet(LastCombination(m))
           /\ result = <<last.final_group_counts, last.final_assignments,
                         last.matched_atoms, FALSE, Status(StatusNotAll, <<>>)>>
           /\ m <= remove_up_to =>
                 /\ ignore_matches = Occurrences
                 /\ result[1] = EmptyFn
                 /\ result[2] = EmptyFn
                 /\ result[3] = {}

\* a search over more than 5 occurrences ran out: what it returns is the one
\* tuple its last combination left, where the unsuppressed pass had matched
\* every atom
C29_Witness ==
    /\ SearchFailed
    /\ Len(things_to_ignore) > remove_up_to
    /\ Cardinality(result[3]) = 1
    /\ run_match(catalog_by_priority, all_matches, {}, all_atom_idxs, H_count).matched_atoms
           = all_atom_idxs

\* a search over no more than 5 occurrences ran out and returns nothing, where
\* the unsuppressed pass had matched every atom
C29_WitnessFew ==
    /\ SearchFailed
    /\ Len(things_to_ignore) \in 2 .. remove_up_to
    /\ result[3] = {}
    /\ run_match(catalog_by_priority, all_matches, {}, all_atom_idxs, H_count).matched_atoms
           = all_atom_idxs

\* a call of either mode has returned: with five components, with the three
\* of a failed construction, or from smarts_fragment
ReturnedEitherMode == pc \in {"done", "no_mol"}

RoundAtom == dups[1]
Claimants(a) ==
    {o \in OccurrencesOf(all_matches) : a \in AtomsAt(all_matches, o)}
LargestClaim(a) == MaxOf({Len(all_matches[o[1]][o[2]]) : o \in Claimants(a)})
LargestClaimants(a) ==
    {o \in Claimants(a) : Len(all_matches[o[1]][o[2]]) = LargestClaim(a)}

\* the next round resolves its atom: one claimant is longer than all others
ResolvingRound ==
    /\ pc = "loop"
    /\ LoopRuns
    /\ Cardinality(LargestClaimants(RoundAtom)) = 1

\* the tuples of g without the shorter claimants of atom a, in their order
IsShorterClaimant(a, t) == a \in Range(t) /\ Len(t) < LargestClaim(a)
RECURSIVE WithoutShorter(_, _)
WithoutShorter(a, hits) ==
    IF hits = <<>> THEN <<>>
    ELSE (IF IsShorterClaimant(a, Head(hits)) THEN <<>> ELSE <<Head(hits)>>)
         \o WithoutShorter(a, Tail(hits))

\* C23: a resolving round of the dedup loop takes out of the MatchSet exactly
\* the tuples that contain its atom and are shorter than the longest tuple
\* containing it, and goes on with the loop
C23_RemovesExactlySmaller ==
    [][ResolvingRound =>
          /\ pc' = "loop"
          /\ all_matches' =
                 [g \in DOMAIN all_matches |-> WithoutShorter(RoundAtom, all_matches[g])]]_vars

\* C30: once every atom of the molecule is in some tuple of the MatchSet, no
\* step of smarts_fragment leaves an atom without a tuple, and the status
\* 'Did not match all atoms present' is not set
C30_CoverageSurvivesDedup ==
    [][UnmatchedAtoms = {} =>
          /\ UnmatchedAtoms' = {}
          /\ status'.text # StatusNotAll]_vars

\* C25: when smarts_fragment returns after its dedup loop, every atom that is
\* still claimed more than once has two or more claimants of the greatest
\* length: no atom with a single longest claimant is left unresolved
C25_OnlyTiesRemain ==
    (Returned /\ deduplicate) =>
        \A a \in OverClaimed : Cardinality(LargestClaimants(a)) >= 2

\* a call of smarts_fragment has a next step to take: the collection is still
\* to be counted, or the call is at the head of the loop, where it either
\* runs a round or goes on to the coverage check
StrictCallRuns == pc \in {"start", "loop"}

\* C24: the dedup loop of smarts_fragment runs its body at most 100 times, each
\* round counting one, and a call stops nowhere but at the return that follows
\* the coverage check
C24_LoopEndsAtCoverageCheck ==
    /\ iteration <= MaxIterations
    /\ pc = "done" \/ StrictCallRuns

\* the part of C24 that the code keeps: the body runs at most 100 times and a
\* call stops only by returning or by raising
C24_LoopEndsOrRaises ==
    /\ iteration <= MaxIterations
    /\ pc \in {"done", "raised"} \/ StrictCallRuns

\* every round of the loop counts one iteration
C24_RoundsCount ==
    [][(pc = "loop" /\ pc' = "loop") => iteration' = iteration + 1]_vars

\* C27: after the parameters of a VaporPressure object were changed and
\* load_all_methods was called again, all_methods, Tmin and Tmax are those of
\* an object newly constructed with the current parameters
C27_ReloadResets ==
    (pc = "loaded" /\ "all_methods" \in DOMAIN self) =>
        LET fresh == VaporPressure(args.parameters, args.load_data)
        IN /\ self.all_methods = fresh.all_methods
           /\ self.Tmin = fresh.Tmin
           /\ self.Tmax = fresh.Tmax

\* the part of C27 that the code keeps: all_methods is that of the new object
C27_ReloadResetsMethods ==
    (pc = "loaded" /\ "all_methods" \in DOMAIN self) =>
        self.all_methods = VaporPressure(args.parameters, args.load_data).all_methods

\* ------------------------------------- the pattern cache of the collector loop
\* most invocations made on one catalog
MaxCalls == 3
\* largest molecule handed to one of these invocations
CallAtoms == 2

\* Chem.MolFromSmarts(s): the compiled pattern of the SMARTS string s
MolFromSmarts(s) == [pattern |-> s]

\* lines 347-351: a list of compiled variants for a list or tuple of strings,
\* else the one compiled pattern
CompilePattern(smart) ==
    IF smart.list
    THEN [list |-> TRUE,
          patterns |-> [i \in DOMAIN smart.strings |-> MolFromSmarts(smart.strings[i])]]
    ELSE [list |-> FALSE, patterns |-> <<MolFromSmarts(smart.strings[1])>>]

\* variant: the pattern is compiled whatever the descriptor holds
NotCachedEver(obj) == TRUE

\* patt = obj.smart_rdkit; if patt is None
NotCached(obj) == obj.smart_rdkit = None

\* lines 345-352 for one descriptor: obj.smart_rdkit = patt
WithPattern(obj) ==
    IF NotCached(obj)
    THEN [obj EXCEPT !.smart_rdkit = Some(CompilePattern(obj.smarts))]
    ELSE obj

\* the descriptors the loop compiles, in the order it visits them
CompiledBy(cat) ==
    LET todo == SelectSeq(cat, NotCached)
    IN [i \in DOMAIN todo |-> todo[i].group_id]

\* the orders in which list(hits) can hand out the elements of the set hits
Orderings(S) == {s \in DistinctSeqs(S, Cardinality(S)) : Len(s) = Cardinality(S)}

\* lines 354-361: the hits of one descriptor in a molecule of n atoms; the hits
\* of the variants of a list are united in a set
HitsOf(obj, n) ==
    IF obj.smart_rdkit[1].list
    THEN UNION {Orderings(Range(h1) \cup Range(h2)) :
                    h1 \in HitLists(n), h2 \in HitLists(n)}
    ELSE HitLists(n)

\* a descriptor with its SMARTS (one string, or a list of two variants) and
\* its cached handle
CachingDescriptor(g, p, h, isList, handle) ==
    [group_id |-> g, priority |-> p, hydrogen_from_smarts |-> FALSE, atoms_H |-> h,
     smarts |-> [list |-> isList,
                 strings |-> IF isList THEN <<<<g, "a">>, <<g, "b">>>> ELSE <<<<g, "a">>>>],
     smart_rdkit |-> handle]

\* catalogs of two groups; a handle is empty or was set by an earlier user of
\* the catalog
CachingCatalogs ==
    {<<CachingDescriptor(1, 2, 1, l1, IF c1 THEN
                             Some(CompilePattern(CachingDescriptor(1, 2, 1, l1, None).smarts))
                         ELSE None),
       CachingDescriptor(2, 1, 0, l2, IF c2 THEN
                             Some(CompilePattern(CachingDescriptor(2, 1, 0, l2, None).smarts))
                         ELSE None)>> :
        l1 \in BOOLEAN, l2 \in BOOLEAN, c1 \in BOOLEAN, c2 \in BOOLEAN}

InitCache ==
    /\ catalog \in CachingCatalogs
    /\ compiled = <<>>
    /\ args = [calls |-> 0]
    /\ self = <<>>
    /\ estimates = <<>>
    /\ pc = "call"
    /\ atom_count = 0
    /\ atomHs = EmptyFn
    /\ all_matches = EmptyFn
    /\ success = TRUE
    /\ status = Status(StatusOK, <<>>)
    /\ InitCallVars
    /\ InitPriorityVars
    /\ InitStrictVars
    /\ InitCompareVars

\* lines 321-364 of one more invocation with a molecule: the locals start
\* anew, every descriptor without a handle gets one, and all_matches is filled
\* with what the patterns hit
CollectorLoop ==
    /\ pc \in {"call", "done"}
    /\ args.calls < MaxCalls
    /\ args' = [args EXCEPT !.calls = @ + 1]
    /\ catalog' = [i \in DOMAIN catalog |-> WithPattern(catalog[i])]
    /\ compiled' = compiled \o CompiledBy(catalog)
    /\ \E n \in 1 .. CallAtoms :
          /\ atom_count' = n
          /\ atomHs' \in HydrogenMaps(n)
          /\ \E h1 \in HitsOf(catalog'[1], n), h2 \in HitsOf(catalog'[2], n) :
                all_matches' = Collect((catalog[1].group_id :> h1) @@
                                       (catalog[2].group_id :> h2))
    /\ success' = TRUE
    /\ status' = Status(StatusOK, <<>>)
    /\ result' = <<>>
    /\ ignore_matches' = {}
    /\ matched_atoms' = {}
    /\ final_group_counts' = EmptyFn
    /\ final_assignments' = EmptyFn
    /\ remove' = 0
    /\ comb' = NoComb
    /\ trials' = 0
    /\ pc' = "start"
    /\ UNCHANGED <<callVars, strictVars, compareVars, self, estimates>>

NextCache ==
    \/ CollectorLoop
    \/ FirstPass
    \/ Trial
    \/ SearchExhausted

SpecCache == InitCache /\ [][NextCache]_vars

\* no group id is twice in compiled
CompiledOnce == \A i, j \in DOMAIN compiled : compiled[i] = compiled[j] => i = j

\* the descriptors of the catalog that hold no handle
WithoutHandle == {i \in DOMAIN catalog : catalog[i].smart_rdkit = <<>>}

\* what was compiled in the step
NewlyCompiled == SubSeq(compiled', Len(compiled) + 1, Len(compiled'))

\* C26: over a sequence of smarts_fragment_priority invocations on one catalog
\* (of SMARTS that compile) a descriptor's pattern, or list of variants, is
\* compiled at most once, by the first invocation that finds its handle empty;
\* an invocation changes nothing of the catalog but empty handles, which it
\* fills, and nothing of the molecule it works on
C26_PatternCache ==
    [][/\ compiled' = compiled \o NewlyCompiled
       /\ CompiledOnce'
       /\ IF args' # args
          THEN /\ Len(NewlyCompiled) = Cardinality(WithoutHandle)
               /\ Range(NewlyCompiled) = {catalog[i].group_id : i \in WithoutHandle}
          ELSE NewlyCompiled = <<>>
       /\ DOMAIN catalog' = DOMAIN catalog
       /\ \A i \in DOMAIN catalog :
             /\ catalog'[i].smart_rdkit # <<>>
             /\ i \notin WithoutHandle => catalog'[i] = catalog[i]
             /\ [catalog'[i] EXCEPT !.smart_rdkit = <<>>] =
                    [catalog[i] EXCEPT !.smart_rdkit = <<>>]
       /\ args' = args => (atom_count' = atom_count /\ atomHs' = atomHs)]_vars

\* a third invocation has returned; the list of variants of group 1 was
\* compiled by the first one and the handle of group 2 was set before it
C26_Witness ==
    /\ pc = "done"
    /\ args = [calls |-> MaxCalls]
    /\ compiled = <<1>>
    /\ catalog[1].smarts.list
    /\ catalog[1].smart_rdkit # <<>>
    /\ success

====
